---- MODULE Spec2Model ----
(***************************************************************************)
(* Study-platform backend: the socket.io signaling relay of the server     *)
(* (handshake middleware, 'join-room', 'webrtc-signal', 'disconnect',      *)
(* connection state recovery), the room routes and the MongoDB             *)
(* connect-with-retry loop.                                                *)
(***************************************************************************)
EXTENDS Integers, Sequences, FiniteSets, TLC

VARIABLES
    state,      \* per connection: "Pending", "Verified", "Admitted", "Closed"
    token,      \* per connection: the token of socket.handshake.auth.token
    reqUser,    \* per connection: what jwtVerify left on the request object it was given
    identity,   \* per connection: the identity attribute of the socket itself
    rooms,      \* the adapter's rooms: room name -> set of connections (no empty room)
    handlers,   \* per connection: the 'webrtc-signal' listeners of its socket (their roomId)
    packets,    \* the adapter's store of broadcast packets (connectionStateRecovery)
    offset,     \* per connection: id of the last packet the client received (0: none)
    sessions,   \* per connection: the session persisted at a recoverable disconnect
    inbox,      \* per connection: what the client received on 'webrtc-signal'
    events,     \* history: every 'webrtc-signal' event a server socket received
    joinedEver, \* history: the rooms a connection ever issued join-room for
    joinedLive, \* history: the rooms it issued join-room for since it last (re)connected
    njoins,     \* history: the number of join-room events handled so far
    roomsDb,    \* the Room collection of the document store, in insertion order
    req,        \* the HTTP request handled last
    resp,       \* the response sent to it
    nreq,       \* history: the number of HTTP requests handled so far
    nsave,      \* history: the number of newRoom.save() calls made so far
    inflight,   \* mongoose.connect() calls not settled yet
    timers,     \* pending setTimeout(connectWithRetry) timers: seconds left of each
    connected,  \* a mongoose.connect() call has resolved
    reachable,  \* environment: the store accepts a connection now
    attempts    \* history: the number of connect attempts started (saturating)

relayVars == <<state, token, reqUser, identity, rooms, handlers, packets, offset,
               sessions, inbox, events, joinedEver, joinedLive, njoins>>

httpVars == <<roomsDb, req, resp, nreq, nsave>>

dbVars == <<inflight, timers, connected, reachable, attempts>>

vars == <<relayVars, httpVars, dbVars>>

----------------------------------------------------------------------------
(* Bounds of the model *)
MaxJoins == 3
MaxEvents == 2
MaxRequests == 3
MaxAttempts == 8

\* setTimeout(connectWithRetry, 5000): the retry delay, in seconds
RetryDelay == 5

Conns == {"A", "B"}
RoomIds == {"room42", "room7"}
Signals == {"offer", "answer"}
NoUser == "null"
NoToken == "undefined"
NoSession == [saved |-> FALSE, rooms |-> {}]
Tokens == {NoToken, "expired", "tokX"}
HttpTokens == Tokens \cup {"tokY"}
Missing == "undefined"
Names == {Missing, "", "Algorithms", "Physics"}
NoReq == [op |-> "none", token |-> NoToken, name |-> Missing]
NoResp == [status |-> 0, body |-> << >>]

----------------------------------------------------------------------------
(* Token Verifier: ./middleware/authMiddleware is not part of the sources; *)
(* modelled from the specification, section 4.1.                           *)
TokenUser(t) == CASE t = "tokX" -> "userX" [] t = "tokY" -> "userY" [] OTHER -> NoUser

jwtVerify(t) == IF TokenUser(t) # NoUser
                THEN [ok |-> TRUE, user |-> TokenUser(t)]
                ELSE [ok |-> FALSE, user |-> NoUser]

----------------------------------------------------------------------------
(* socket.io adapter helpers *)
Members(r) == IF r \in DOMAIN rooms THEN rooms[r] ELSE {}

RoomsOf(c) == {r \in DOMAIN rooms : c \in rooms[r]}

\* adapter.addAll: create the room if absent, add the socket id (a Set)
AddAll(rm, c, rs) ==
    [r \in DOMAIN rm \cup rs |->
        IF r \in rs THEN (IF r \in DOMAIN rm THEN rm[r] ELSE {}) \cup {c} ELSE rm[r]]

\* adapter.delAll: remove the socket id from every room, delete the rooms left empty
DelAll(rm, c) ==
    [r \in {x \in DOMAIN rm : rm[x] \ {c} # {}} |-> rm[r] \ {c}]

SeqRange(s) == {s[i] : i \in 1..Len(s)}

----------------------------------------------------------------------------
Init ==
    /\ state = [c \in Conns |-> "Pending"]
    /\ token = [c \in Conns |-> NoToken]
    /\ reqUser = [c \in Conns |-> NoUser]
    /\ identity = [c \in Conns |-> NoUser]
    /\ rooms = << >>
    /\ handlers = [c \in Conns |-> << >>]
    /\ packets = << >>
    /\ offset = [c \in Conns |-> 0]
    /\ sessions = [c \in Conns |-> NoSession]
    /\ inbox = [c \in Conns |-> << >>]
    /\ events = << >>
    /\ joinedEver = [c \in Conns |-> {}]
    /\ joinedLive = [c \in Conns |-> {}]
    /\ njoins = 0
    /\ roomsDb = << >>
    /\ req = NoReq
    /\ resp = NoResp
    /\ nreq = 0
    /\ nsave = 0
    \* connectWithRetry() is called once while the module loads
    /\ inflight = 1
    /\ timers = << >>
    /\ connected = FALSE
    /\ reachable = TRUE
    /\ attempts = 1

\* Handshake with a fault: next() is called whatever the verifier answered.
Handshake_NoCheck(c, t) ==
    /\ state[c] = "Pending"
    /\ token' = [token EXCEPT ![c] = t]
    /\ reqUser' = [reqUser EXCEPT ![c] = jwtVerify(t).user]
    /\ state' = [state EXCEPT ![c] = "Verified"]
    /\ UNCHANGED <<identity, rooms, handlers, packets, offset, sessions, inbox,
                   events, joinedEver, joinedLive, njoins>>
    /\ UNCHANGED <<httpVars, dbVars>>

\* io.use: the handshake middleware. jwtVerify is given a request object built
\* for the call, an empty response and next; the socket is not handed to it.
Handshake(c, t) ==
    /\ state[c] = "Pending"
    /\ token' = [token EXCEPT ![c] = t]
    /\ LET v == jwtVerify(t) IN
         /\ reqUser' = [reqUser EXCEPT ![c] = v.user]
         /\ state' = [state EXCEPT ![c] = IF v.ok THEN "Verified" ELSE "Closed"]
    /\ UNCHANGED <<identity, rooms, handlers, packets, offset, sessions, inbox,
                   events, joinedEver, joinedLive, njoins>>
    /\ UNCHANGED <<httpVars, dbVars>>

\* io.on('connection'): runs for a socket the middleware let through; registers
\* the 'join-room' and 'disconnect' listeners.
OnConnection(c) ==
    /\ state[c] = "Verified"
    /\ state' = [state EXCEPT ![c] = "Admitted"]
    /\ UNCHANGED <<token, reqUser, identity, rooms, handlers, packets, offset,
                   sessions, inbox, events, joinedEver, joinedLive, njoins>>
    /\ UNCHANGED <<httpVars, dbVars>>

\* socket.on('join-room'): socket.join(roomId), then one more 'webrtc-signal'
\* listener closed over roomId.
JoinRoom(c, r) ==
    /\ state[c] = "Admitted"
    /\ njoins < MaxJoins
    /\ njoins' = njoins + 1
    /\ rooms' = AddAll(rooms, c, {r})
    /\ handlers' = [handlers EXCEPT ![c] = Append(@, r)]
    /\ joinedEver' = [joinedEver EXCEPT ![c] = @ \cup {r}]
    /\ joinedLive' = [joinedLive EXCEPT ![c] = @ \cup {r}]
    /\ UNCHANGED <<state, token, reqUser, identity, packets, offset, sessions,
                   inbox, events>>
    /\ UNCHANGED <<httpVars, dbVars>>

\* NewPackets with a fault: a listener registered with the connection relays to a
\* default room when no join-room has registered one.
NewPackets_Default(c, s) ==
    IF handlers[c] = << >>
    THEN << [room |-> "room42", except |-> c, data |-> s, ev |-> Len(events) + 1] >>
    ELSE [i \in 1..Len(handlers[c]) |->
            [room |-> handlers[c][i], except |-> c, data |-> s, ev |-> Len(events) + 1]]

\* The packets one 'webrtc-signal' event broadcasts: one per registered listener,
\* socket.to(roomId).emit('webrtc-signal', signal).
NewPackets(c, s) ==
    [i \in 1..Len(handlers[c]) |->
        [room |-> handlers[c][i], except |-> c, data |-> s, ev |-> Len(events) + 1]]

\* What connection d receives of the packets appended to the store at base+1..
Deliveries(d, new, base) ==
    LET idx == {i \in 1..Len(new) : d \in Members(new[i].room) \ {new[i].except}}
        F[i \in 0..Len(new)] ==
            IF i = 0 THEN << >>
            ELSE IF i \in idx
                 THEN Append(F[i-1], [pkt |-> base + i, data |-> new[i].data,
                                      replay |-> FALSE])
                 ELSE F[i-1]
    IN F[Len(new)]

LastPkt(seq, dflt) == IF seq = << >> THEN dflt ELSE seq[Len(seq)].pkt

\* A 'webrtc-signal' event arriving on the socket of c: every listener registered
\* by the join-room handler runs.
Signal(c, s) ==
    /\ state[c] = "Admitted"
    /\ Len(events) < MaxEvents
    /\ LET new == NewPackets(c, s) IN
         /\ packets' = packets \o new
         /\ inbox' = [d \in Conns |-> inbox[d] \o Deliveries(d, new, Len(packets))]
         /\ offset' = [d \in Conns |->
                          LastPkt(Deliveries(d, new, Len(packets)), offset[d])]
    /\ events' = Append(events, [from |-> c, data |-> s, rooms |-> rooms,
                                 listeners |-> handlers[c]])
    /\ UNCHANGED <<state, token, reqUser, identity, rooms, handlers, sessions,
                   joinedEver, joinedLive, njoins>>
    /\ UNCHANGED <<httpVars, dbVars>>

\* Disconnect with a fault: the socket is closed but is left in its rooms.
Disconnect_NoLeave(c, recoverable) ==
    /\ state[c] = "Admitted"
    /\ state' = [state EXCEPT ![c] = "Closed"]
    /\ sessions' = [sessions EXCEPT ![c] = IF recoverable THEN [saved |-> TRUE, rooms |-> RoomsOf(c)]
                                             ELSE NoSession]
    /\ handlers' = [handlers EXCEPT ![c] = << >>]
    /\ joinedLive' = [joinedLive EXCEPT ![c] = {}]
    /\ UNCHANGED <<token, reqUser, identity, rooms, packets, offset, inbox, events,
                   joinedEver, njoins>>
    /\ UNCHANGED <<httpVars, dbVars>>

\* The transport closes (socket.io's _onclose, then the 'disconnect' listener,
\* which only logs): with connectionStateRecovery the session is persisted for a
\* recoverable reason; the socket leaves every room.
Disconnect(c, recoverable) ==
    /\ state[c] = "Admitted"
    /\ state' = [state EXCEPT ![c] = "Closed"]
    /\ sessions' = [sessions EXCEPT ![c] = IF recoverable THEN [saved |-> TRUE, rooms |-> RoomsOf(c)]
                                             ELSE NoSession]
    /\ rooms' = DelAll(rooms, c)
    /\ handlers' = [handlers EXCEPT ![c] = << >>]
    /\ joinedLive' = [joinedLive EXCEPT ![c] = {}]
    /\ UNCHANGED <<token, reqUser, identity, packets, offset, inbox, events, joinedEver, njoins>>
    /\ UNCHANGED <<httpVars, dbVars>>

\* Missed with a fault: every stored packet after the offset is replayed, whatever
\* its room.
Missed_AnyRoom(c) ==
    LET F[i \in 0..Len(packets)] ==
            IF i = 0 THEN << >>
            ELSE IF i > offset[c] /\ packets[i].except # c
                 THEN Append(F[i-1], [pkt |-> i, data |-> packets[i].data,
                                      replay |-> TRUE])
                 ELSE F[i-1]
    IN F[Len(packets)]

\* The packets of the store a restored session missed.
Missed(c) ==
    LET F[i \in 0..Len(packets)] ==
            IF i = 0 THEN << >>
            ELSE IF /\ i > offset[c]
                    /\ packets[i].room \in sessions[c].rooms
                    /\ packets[i].except # c
                 THEN Append(F[i-1], [pkt |-> i, data |-> packets[i].data,
                                      replay |-> TRUE])
                 ELSE F[i-1]
    IN F[Len(packets)]

\* connectionStateRecovery: the client reconnects within maxDisconnectionDuration
\* with the offset of a stored packet; a new socket takes the id and the rooms of
\* the session, is sent the packets it missed, and the 'connection' handler runs.
Recover(c) ==
    /\ state[c] = "Closed"
    /\ sessions[c].saved
    /\ offset[c] # 0
    /\ state' = [state EXCEPT ![c] = "Admitted"]
    /\ rooms' = AddAll(rooms, c, sessions[c].rooms)
    /\ inbox' = [inbox EXCEPT ![c] = @ \o Missed(c)]
    /\ offset' = [offset EXCEPT ![c] = LastPkt(Missed(c), @)]
    /\ sessions' = [sessions EXCEPT ![c] = NoSession]
    /\ UNCHANGED <<token, reqUser, identity, handlers, packets, events,
                   joinedEver, joinedLive, njoins>>
    /\ UNCHANGED <<httpVars, dbVars>>

Next ==
    \/ \E c \in Conns, t \in Tokens : Handshake(c, t)
    \/ \E c \in Conns : OnConnection(c)
    \/ \E c \in Conns, r \in RoomIds : JoinRoom(c, r)
    \/ \E c \in Conns, s \in Signals : Signal(c, s)
    \/ \E c \in Conns, b \in BOOLEAN : Disconnect(c, b)
    \/ \E c \in Conns : Recover(c)

\* The signaling relay (the store connected or not, no HTTP request in progress)
Spec == Init /\ [][Next]_vars

----------------------------------------------------------------------------
(* The room routes *)

\* authMiddleware (./middleware/authMiddleware, not part of the sources): the
\* bearer token is verified; req.user.userId is the identity it encodes.
authMiddleware(t) == jwtVerify(t)

\* new Room({name, createdBy: req.user.userId, members: [req.user.userId]})
NewRoom(name, u) == [id |-> Len(roomsDb) + 1, name |-> name, createdBy |-> u, members |-> <<u>>]

\* populate(path, "username"): the referenced user document, its _id and username
UserDoc(u) == [id |-> u, username |-> u]

Populate(room) ==
    [id |-> room.id, name |-> room.name, createdBy |-> UserDoc(room.createdBy),
     members |-> [i \in 1..Len(room.members) |-> UserDoc(room.members[i])]]

\* CreateRoom with a fault: the name is not validated.
CreateRoom_NoValidation(t, name, saveOk) ==
    /\ nreq < MaxRequests
    /\ nreq' = nreq + 1
    /\ req' = [op |-> "create", token |-> t, name |-> name]
    /\ IF ~authMiddleware(t).ok
       THEN /\ resp' = [status |-> 401, body |-> << >>]
            /\ UNCHANGED <<roomsDb, nsave>>
       ELSE /\ nsave' = nsave + 1
            /\ IF saveOk
               THEN /\ roomsDb' = Append(roomsDb, NewRoom(name, authMiddleware(t).user))
                    /\ resp' = [status |-> 201,
                                body |-> <<NewRoom(name, authMiddleware(t).user)>>]
               ELSE /\ resp' = [status |-> 500, body |-> << >>]
                    /\ UNCHANGED roomsDb
    /\ UNCHANGED <<relayVars, dbVars>>

\* router.post("/create", authMiddleware, ...): saveOk is whether newRoom.save()
\* resolves.
CreateRoom(t, name, saveOk) ==
    /\ nreq < MaxRequests
    /\ nreq' = nreq + 1
    /\ req' = [op |-> "create", token |-> t, name |-> name]
    /\ IF ~authMiddleware(t).ok
       THEN /\ resp' = [status |-> 401, body |-> << >>]
            /\ UNCHANGED <<roomsDb, nsave>>
       ELSE IF name \in {Missing, ""}
       THEN /\ resp' = [status |-> 400, body |-> << >>]
            /\ UNCHANGED <<roomsDb, nsave>>
       ELSE /\ nsave' = nsave + 1
            /\ IF saveOk
               THEN /\ roomsDb' = Append(roomsDb, NewRoom(name, authMiddleware(t).user))
                    /\ resp' = [status |-> 201,
                                body |-> <<NewRoom(name, authMiddleware(t).user)>>]
               ELSE /\ resp' = [status |-> 500, body |-> << >>]
                    /\ UNCHANGED roomsDb
    /\ UNCHANGED <<relayVars, dbVars>>

\* router.get("/"): findOk is whether Room.find().populate().populate() resolves.
ListRooms(findOk) ==
    /\ nreq < MaxRequests
    /\ nreq' = nreq + 1
    /\ req' = [op |-> "list", token |-> NoToken, name |-> Missing]
    /\ resp' = IF findOk
               THEN [status |-> 200, body |-> [i \in 1..Len(roomsDb) |-> Populate(roomsDb[i])]]
               ELSE [status |-> 500, body |-> << >>]
    /\ UNCHANGED <<roomsDb, nsave>>
    /\ UNCHANGED <<relayVars, dbVars>>

HttpNext ==
    \/ \E t \in HttpTokens, name \in Names, ok \in BOOLEAN : CreateRoom(t, name, ok)
    \/ \E ok \in BOOLEAN : ListRooms(ok)

HttpSpec == Init /\ [][HttpNext]_vars

----------------------------------------------------------------------------
(* The connection to the store, established with retry *)

Inc(n) == IF n < MaxAttempts THEN n + 1 ELSE n

RemoveAt(seq, k) == [i \in 1..(Len(seq) - 1) |-> IF i < k THEN seq[i] ELSE seq[i + 1]]

\* mongoose.connect() resolves: nothing more is scheduled.
ConnectSucceeds ==
    /\ inflight > 0
    /\ reachable
    /\ inflight' = inflight - 1
    /\ connected' = TRUE
    /\ UNCHANGED <<timers, reachable, attempts>>
    /\ UNCHANGED <<relayVars, httpVars>>

\* ConnectFails with a fault: the failure is logged and no retry is scheduled.
ConnectFails_NoRetry ==
    /\ inflight > 0
    /\ ~reachable
    /\ inflight' = inflight - 1
    /\ UNCHANGED <<timers, connected, reachable, attempts>>
    /\ UNCHANGED <<relayVars, httpVars>>

\* mongoose.connect() rejects: .catch logs and calls
\* setTimeout(connectWithRetry, 5000).
ConnectFails ==
    /\ inflight > 0
    /\ ~reachable
    /\ inflight' = inflight - 1
    /\ timers' = Append(timers, RetryDelay)
    /\ UNCHANGED <<connected, reachable, attempts>>
    /\ UNCHANGED <<relayVars, httpVars>>

\* One second passes; a timer that is due fires first.
Tick ==
    /\ timers # << >>
    /\ \A i \in 1..Len(timers) : timers[i] > 0
    /\ timers' = [i \in 1..Len(timers) |-> timers[i] - 1]
    /\ UNCHANGED <<inflight, connected, reachable, attempts>>
    /\ UNCHANGED <<relayVars, httpVars>>

\* A timer is due: connectWithRetry runs and calls mongoose.connect() again.
connectWithRetry(k) ==
    /\ k \in 1..Len(timers)
    /\ timers[k] = 0
    /\ timers' = RemoveAt(timers, k)
    /\ inflight' = inflight + 1
    /\ attempts' = Inc(attempts)
    /\ UNCHANGED <<connected, reachable>>
    /\ UNCHANGED <<relayVars, httpVars>>

\* Environment: the store becomes reachable or unreachable.
StoreFlips ==
    /\ reachable' = ~reachable
    /\ UNCHANGED <<inflight, timers, connected, attempts>>
    /\ UNCHANGED <<relayVars, httpVars>>

DbNext ==
    \/ ConnectSucceeds
    \/ ConnectFails
    \/ Tick
    \/ \E k \in 1..2 : connectWithRetry(k)
    \/ StoreFlips

\* The event loop runs every callback that is due, and time passes.
DbFairness ==
    /\ WF_vars(ConnectSucceeds)
    /\ WF_vars(ConnectFails)
    /\ WF_vars(Tick)
    /\ WF_vars(\E k \in 1..2 : connectWithRetry(k))

DbSpec == Init /\ [][DbNext]_vars /\ DbFairness

----------------------------------------------------------------------------
(* Properties of the signaling relay *)

\* the inbox entries of d that come from event e
EntriesOf(d, e) == {i \in 1..Len(inbox[d]) : packets[inbox[d][i].pkt].ev = e}

\* the members of room r when event e was dispatched
MembersAt(e, r) == IF r \in DOMAIN events[e].rooms THEN events[e].rooms[r] ELSE {}

\* the rooms the sender of event e was a member of at dispatch
SenderRooms(e) == {r \in DOMAIN events[e].rooms : events[e].from \in events[e].rooms[r]}

\* C1: every signal sent by a member C of channel R reaches every other member
\* of R at dispatch time, unmodified, and never C itself.
C1_RelayToOthers ==
    \A e \in 1..Len(events) :
        /\ \A r \in SenderRooms(e) : \A d \in MembersAt(e, r) \ {events[e].from} :
              \E i \in EntriesOf(d, e) : inbox[d][i].data = events[e].data
        /\ EntriesOf(events[e].from, e) = {}

C3_JoinIdempotent ==
    /\ \A c \in Conns : Len(handlers[c]) = Cardinality(SeqRange(handlers[c]))
    /\ \A e \in 1..Len(events) : \A d \in Conns : \A r \in RoomIds :
          Cardinality({i \in EntriesOf(d, e) :
                          ~inbox[d][i].replay /\ packets[inbox[d][i].pkt].room = r}) <= 1

\* C4: a signal is relayed to the channel its sender joined most recently, and
\* not to connections that are members only of a channel it joined earlier.
C4_MostRecentChannel ==
    \A e \in 1..Len(events) :
        LET ls == events[e].listeners IN
        ls # << >> =>
            /\ \A d \in MembersAt(e, ls[Len(ls)]) \ {events[e].from} : EntriesOf(d, e) # {}
            /\ \A d \in Conns :
                  (\E i \in EntriesOf(d, e) : ~inbox[d][i].replay)
                      => d \in MembersAt(e, ls[Len(ls)])

\* C5: a connection whose token fails verification never reaches Admitted, the
\* 'connection' handler never runs for it, and it changes no membership and
\* causes no delivery.
C5_InvalidTokenRefused ==
    \A c \in Conns :
        ~jwtVerify(token[c]).ok =>
            /\ state[c] \in {"Pending", "Closed"}
            /\ RoomsOf(c) = {}
            /\ handlers[c] = << >>
            /\ joinedEver[c] = {}
            /\ inbox[c] = << >>
            /\ \A e \in 1..Len(events) : events[e].from # c
            /\ \A i \in 1..Len(packets) : packets[i].except # c

\* a connection was refused with an expired token while another relays
C5_Witness ==
    /\ \E c \in Conns : state[c] = "Closed" /\ token[c] = "expired"
    /\ \E c \in Conns : state[c] = "Admitted" /\ RoomsOf(c) # {}
    /\ events # << >>

\* C6: an admitted connection carries the identity encoded in its token.
C6_IdentityAttached ==
    \A c \in Conns :
        state[c] = "Admitted" =>
            identity[c] # NoUser /\ identity[c] = TokenUser(token[c])

C10_NonMemberSignalNoOp ==
    [][(/\ Len(events') = Len(events) + 1
        /\ SenderRooms(Len(events))' = {})
          => (inbox' = inbox /\ rooms' = rooms /\ packets' = packets /\ handlers' = handlers)]_vars

\* a connection that joined nothing has sent a signal while another one is in a room
C10_Witness ==
    \E e \in 1..Len(events) :
        /\ events[e].listeners = << >>
        /\ SenderRooms(e) = {}
        /\ DOMAIN events[e].rooms # {}

----------------------------------------------------------------------------
(* Properties of the room routes *)

\* C8: POST /rooms/create by an authenticated user answers 400 and stores
\* nothing when the name is missing or empty; otherwise it calls save once and
\* either stores exactly one room (createdBy the caller, members containing the
\* caller) and answers 201 with it, or stores nothing and answers 500; a
\* listRooms that answers 200 lists every stored room, creator and members
\* resolved.
C8_CreateThenList ==
    [][nreq' = nreq + 1 =>
        /\ (req'.op = "create" /\ TokenUser(req'.token) # NoUser) =>
              IF req'.name \in {Missing, ""}
              THEN resp'.status = 400 /\ roomsDb' = roomsDb /\ nsave' = nsave
              ELSE /\ nsave' = nsave + 1
                   /\ \/ /\ resp'.status = 500
                         /\ roomsDb' = roomsDb
                      \/ /\ resp'.status = 201
                         /\ Len(roomsDb') = Len(roomsDb) + 1
                         /\ SubSeq(roomsDb', 1, Len(roomsDb)) = roomsDb
                         /\ LET room == roomsDb'[Len(roomsDb')] IN
                               /\ room.name = req'.name
                               /\ room.createdBy = TokenUser(req'.token)
                               /\ \E m \in 1..Len(room.members) :
                                     room.members[m] = TokenUser(req'.token)
                               /\ resp'.body = <<room>>
        /\ (req'.op = "list" /\ resp'.status = 200) =>
              /\ roomsDb' = roomsDb
              /\ \A i \in 1..Len(roomsDb) : \E j \in 1..Len(resp'.body) :
                    /\ resp'.body[j].name = roomsDb[i].name
                    /\ resp'.body[j].createdBy.id = roomsDb[i].createdBy
                    /\ \E m \in 1..Len(resp'.body[j].members) :
                          resp'.body[j].members[m].id = roomsDb[i].createdBy
    ]_vars

\* a room was created, another save failed, and listRooms returned the room
C8_Witness ==
    /\ req.op = "list"
    /\ resp.status = 200
    /\ \E j \in 1..Len(resp.body) :
          resp.body[j].name = "Algorithms" /\ resp.body[j].createdBy.id = "userX"
    /\ nsave > Len(roomsDb)

----------------------------------------------------------------------------
(* Properties of the connection to the store *)

====
